---- MODULE Spec2Model ----
(***************************************************************************)
(* The spin-synchronisation protocol of WheelPage                          *)
(* (src/src/pages/wheel/index.tsx): several browser clients share one      *)
(* Firestore document "wheels/<wheelId>".  Each client subscribes to the   *)
(* document (onSnapshot), derives its local React state from every         *)
(* snapshot, and writes the document in handleSpinStart and                *)
(* handleSpinComplete (updateDoc).                                         *)
(*                                                                         *)
(* Abstractions:                                                           *)
(*  - currentSpin.timestamp (Date.now()) is left out: nothing reads it.    *)
(*  - the store delivers the document as it is at the moment of delivery;  *)
(*    a client that has not been delivered the latest document keeps a     *)
(*    stale cached wheel, which is how delayed delivery shows.  A snapshot *)
(*    may be delivered any number of times.                                *)
(*  - auth.currentUser is the principal the component was given as `user`. *)
(*  - window size, clipboard and the markup are left out.                  *)
(***************************************************************************)
EXTENDS Naturals, Sequences, FiniteSets

\* ------------------------------------------------------------ bounds
NumClients == 2
MaxParticipants == 2
MaxStarts == 2

Clients == 1..NumClients

\* ------------------------------------------------------------ values
Undefined == "undefined"
Null == "null"

\* Principals (firebase User): uid and email; email may be null.
NoUser == [uid |-> Undefined, email |-> Undefined]
U1 == [uid |-> "u1", email |-> "a@x.com"]
U2 == [uid |-> "u2", email |-> "b@x.com"]
U3 == [uid |-> "u3", email |-> Null]
Users == {U1, U2, U3}
Principals == Users \cup {NoUser}
Emails == {"a@x.com", "b@x.com"}
Roles == {"viewer", "editor"}

\* The wheel's options, in order, and the results a spin can settle on.
WheelItems == <<"Pizza", "Sushi">>
Items == {WheelItems[i] : i \in 1..Len(WheelItems)}
WheelId == "w1"
NoId == Undefined

\* `x` as a JavaScript condition: undefined, null and "" are falsy.
Truthy(x) == x \notin {Undefined, Null, ""}

\* ------------------------------------------------------------ documents
NoSpin == [absent |-> TRUE]
NoWheel == [null |-> TRUE]

Participant == [email : Emails, role : Roles]

RECURSIVE SeqsUpTo(_, _)
SeqsUpTo(S, n) ==
    IF n = 0 THEN {<<>>}
    ELSE LET shorter == SeqsUpTo(S, n - 1)
         IN  shorter \cup {Append(s, x) : s \in shorter, x \in S}

UniqueEmails(ps) ==
    \A i, j \in 1..Len(ps) : ps[i].email = ps[j].email => i = j

ParticipantLists ==
    {ps \in SeqsUpTo(Participant, MaxParticipants) : UniqueEmails(ps)}

\* A wheel document as the creating page leaves it: no spin yet.
NewDoc(ex, pub, ps) ==
    [exists |-> ex, id |-> "embedded", title |-> "Lunch", items |-> WheelItems,
     owner |-> "u1", isPublic |-> pub, participants |-> ps,
     isSpinning |-> FALSE, currentSpin |-> NoSpin, initiatedBy |-> Undefined]

VARIABLES
    doc,               \* the shared document wheels/<wheelId> in the store
    user,              \* user[c]: the `user` prop of client c
    wheelId,           \* wheelId[c]: useParams().wheelId
    subs,              \* subs[c]: principals captured by c's live listeners
    mounted,           \* mounted[c]: the page component of c is mounted
    wheel,             \* React state of client c, as in the source
    loading,
    error,
    winner,
    showConfetti,
    canEdit,
    localSpinning,
    spinTriggeredRef,
    animating,         \* the Wheel visualization of c is running its animation
    animStarts,        \* times c started the animation since isSpinning was last seen false
    lastCall           \* the handler that ran last, and what it did

local == <<wheel, loading, error, winner, showConfetti, canEdit, localSpinning,
           spinTriggeredRef>>
vars == <<doc, user, wheelId, subs, mounted, wheel, loading, error, winner, showConfetti,
          canEdit, localSpinning, spinTriggeredRef, animating, animStarts, lastCall>>

Call(op, c, outcome) == [op |-> op, client |-> c, outcome |-> outcome]

\* useEffect([wheelId, user]): no listener without a wheel id (line 74).
Subscribe(id, u) == IF id = NoId THEN {} ELSE {u}

InitLocal ==
    /\ wheel = [c \in Clients |-> NoWheel]
    /\ loading = [c \in Clients |-> TRUE]
    /\ error = [c \in Clients |-> Null]
    /\ winner = [c \in Clients |-> ""]
    /\ showConfetti = [c \in Clients |-> FALSE]
    /\ canEdit = [c \in Clients |-> FALSE]
    /\ localSpinning = [c \in Clients |-> FALSE]
    /\ spinTriggeredRef = [c \in Clients |-> FALSE]
    /\ animating = [c \in Clients |-> FALSE]
    /\ mounted = [c \in Clients |-> TRUE]
    /\ animStarts = [c \in Clients |-> 0]
    /\ lastCall = Call("mount", 0, "none")

\* Clients are interchangeable: principals are handed out in one order only.
Rank(u) ==
    IF u.uid = "u1" THEN 1 ELSE IF u.uid = "u2" THEN 2
    ELSE IF u.uid = "u3" THEN 3 ELSE 4

Ordered(f) == \A c, d \in Clients : c < d => Rank(f[c]) <= Rank(f[d])

\* Several clients on one existing wheel: the owner, a second signed-in
\* principal and anonymous visitors, on a public or a private wheel.
Init ==
    /\ \E pub \in BOOLEAN : doc = NewDoc(TRUE, pub, <<>>)
    /\ user \in {f \in [Clients -> Principals \ {U3}] : Ordered(f)}
    /\ wheelId = [c \in Clients |-> WheelId]
    /\ subs = [c \in Clients |-> Subscribe(wheelId[c], user[c])]
    /\ InitLocal

\* One client's session, on any wheel document and with any principal.
SessionClients == {1}

SessionInit ==
    /\ \E ex \in BOOLEAN, pub \in BOOLEAN, ps \in ParticipantLists :
          doc = NewDoc(ex, pub, ps)
    /\ \E u \in Principals :
          user = [c \in Clients |-> IF c \in SessionClients THEN u ELSE NoUser]
    /\ \E id \in {WheelId, NoId} :
          wheelId = [c \in Clients |-> IF c \in SessionClients THEN id ELSE NoId]
    /\ subs = [c \in Clients |-> Subscribe(wheelId[c], user[c])]
    /\ InitLocal

\* ------------------------------------------------------------ onSnapshot
\* participants.find((p) => p.email === userEmail): the first match.
NoParticipant == [email |-> Undefined, role |-> Undefined]

RECURSIVE Find(_, _)
Find(ps, email) ==
    IF ps = <<>> THEN NoParticipant
    ELSE IF Head(ps).email = email THEN Head(ps)
    ELSE Find(Tail(ps), email)

\* An access check that forgets the participants.
HasAccessOwnerOrPublic(u, data) ==
    \/ data.isPublic
    \/ (u # NoUser /\ data.owner = u.uid)

HasAccess(u, data) ==
    \/ data.isPublic
    \/ (u # NoUser /\ data.owner = u.uid)
    \/ Find(data.participants, u.email) # NoParticipant

\* An edit check that ignores the participant's role.
CanEditAnyParticipant(u, data) ==
    /\ u # NoUser
    /\ \/ data.owner = u.uid
       \/ Find(data.participants, u.email) # NoParticipant

CanEditValue(u, data) ==
    LET participant == Find(data.participants, u.email)
    IN  /\ u # NoUser
        /\ \/ data.owner = u.uid
           \/ participant.role = "editor"

\* { id: snap.id, ...wheelDataWithoutId }
WheelOf(data) ==
    [id |-> WheelId, title |-> data.title, items |-> data.items,
     owner |-> data.owner, isPublic |-> data.isPublic,
     participants |-> data.participants, isSpinning |-> data.isSpinning,
     currentSpin |-> data.currentSpin, initiatedBy |-> data.initiatedBy]

\* Edge detection that ignores the one-shot flag.
StartsAnimationEveryTime(data, ref) == data.isSpinning

\* data.isSpinning && !spinTriggeredRef.current
StartsAnimation(data, ref) == data.isSpinning /\ ~ref

\* Spin sync that never re-arms the one-shot flag.
SpinTriggeredSticky(data, ref) ==
    IF StartsAnimation(data, ref) THEN TRUE ELSE ref

SpinTriggeredAfter(data, ref) ==
    IF ~data.isSpinning THEN FALSE
    ELSE IF StartsAnimation(data, ref) THEN TRUE
    ELSE ref

\* Spin sync that never calls setLocalSpinning(false).
LocalSpinningSticky(data, ref, ls) ==
    IF StartsAnimation(data, ref) THEN TRUE ELSE ls

LocalSpinningAfter(data, ref, ls) ==
    IF ~data.isSpinning THEN FALSE
    ELSE IF StartsAnimation(data, ref) THEN TRUE
    ELSE ls

\* data.currentSpin?.winner
SpinWinner(data) ==
    IF data.currentSpin = NoSpin THEN Undefined ELSE data.currentSpin.winner

WinnerAfter(data) == IF Truthy(SpinWinner(data)) THEN SpinWinner(data) ELSE ""

ShowConfettiAfter(data) == Truthy(SpinWinner(data))

Min(a, b) == IF a < b THEN a ELSE b

NotFound(c) ==
    /\ error' = [error EXCEPT ![c] = "Wheel not found."]
    /\ loading' = [loading EXCEPT ![c] = FALSE]
    /\ UNCHANGED <<wheel, winner, showConfetti, canEdit, localSpinning,
                   spinTriggeredRef, animating, animStarts>>
    /\ lastCall' = Call("onSnapshot", c, "notfound")

\* A forbidden exit that also drops the cached wheel and the edit right.
ForbiddenClearsWheel(c) ==
    /\ error' = [error EXCEPT ![c] = "You do not have permission to view this wheel."]
    /\ loading' = [loading EXCEPT ![c] = FALSE]
    /\ wheel' = [wheel EXCEPT ![c] = NoWheel]
    /\ canEdit' = [canEdit EXCEPT ![c] = FALSE]
    /\ UNCHANGED <<winner, showConfetti, localSpinning,
                   spinTriggeredRef, animating, animStarts>>
    /\ lastCall' = Call("onSnapshot", c, "forbidden")

Forbidden(c) ==
    /\ error' = [error EXCEPT ![c] = "You do not have permission to view this wheel."]
    /\ loading' = [loading EXCEPT ![c] = FALSE]
    /\ UNCHANGED <<wheel, winner, showConfetti, canEdit, localSpinning,
                   spinTriggeredRef, animating, animStarts>>
    /\ lastCall' = Call("onSnapshot", c, "forbidden")

\* An accepted snapshot that wipes an earlier error.
ErrorClearedOnAccept(e) == Null

\* The accepted path (lines 99-129) never calls setError.
ErrorOnAccept(e) == e

Accept(c, u, data) ==
    LET starts == StartsAnimation(data, spinTriggeredRef[c])
        ls == LocalSpinningAfter(data, spinTriggeredRef[c], localSpinning[c])
    IN  /\ canEdit' = [canEdit EXCEPT ![c] = CanEditValue(u, data)]
        /\ wheel' = [wheel EXCEPT ![c] = WheelOf(data)]
        /\ spinTriggeredRef' =
              [spinTriggeredRef EXCEPT ![c] = SpinTriggeredAfter(data, @)]
        /\ localSpinning' = [localSpinning EXCEPT ![c] = ls]
        /\ winner' = [winner EXCEPT ![c] = WinnerAfter(data)]
        /\ showConfetti' = [showConfetti EXCEPT ![c] = ShowConfettiAfter(data)]
        /\ loading' = [loading EXCEPT ![c] = FALSE]
        /\ error' = [error EXCEPT ![c] = ErrorOnAccept(@)]
           \* the Wheel starts its animation when `spinning` turns true and
           \* drops it when `spinning` turns false
        /\ animating' = [animating EXCEPT ![c] =
              IF ~ls THEN FALSE ELSE IF ~localSpinning[c] THEN TRUE ELSE @]
        /\ animStarts' = [animStarts EXCEPT ![c] =
              IF ~data.isSpinning THEN 0
              ELSE IF starts THEN Min(@ + 1, MaxStarts) ELSE @]
        /\ lastCall' = Call("onSnapshot", c, IF starts THEN "triggered" ELSE "accepted")

\* The listener of client c that captured principal u is handed the document.
SnapshotCallback(c, u, snap) ==
    IF ~snap.exists THEN NotFound(c)
    ELSE IF ~HasAccess(u, snap) THEN Forbidden(c)
    ELSE Accept(c, u, snap)

OnSnapshot(c) ==
    /\ \E u \in subs[c] : SnapshotCallback(c, u, doc)
    /\ UNCHANGED <<doc, user, wheelId, subs, mounted>>

\* ------------------------------------------------------------ handleSpinStart
\* A start write that does not record who started the spin.
StartSpinKeepsInitiator(d, uid) ==
    [d EXCEPT !.isSpinning = TRUE,
              !.currentSpin = [winner |-> Null]]

\* updateDoc(wheelRef, {isSpinning: true, initiatedBy: uid, currentSpin: {winner: null}})
StartSpinUpdate(d, uid) ==
    [d EXCEPT !.isSpinning = TRUE,
              !.initiatedBy = uid,
              !.currentSpin = [winner |-> Null]]

\* A precondition that asks for a signed-in principal, not for its email.
StartSpinNeedsUserOnly(c) ==
    IF wheelId[c] = NoId THEN "toast: Wheel not found."
    ELSE IF user[c] = NoUser THEN "toast: Unable to identify user."
    ELSE "ok"

\* A precondition that also refuses a client whose canEdit is false.
StartSpinChecksCanEdit(c) ==
    IF wheelId[c] = NoId THEN "toast: Wheel not found."
    ELSE IF ~Truthy(user[c].email) THEN "toast: Unable to identify user."
    ELSE IF ~canEdit[c] THEN "toast: Unable to identify user."
    ELSE "ok"

\* The two early returns of handleSpinStart (lines 137-144): the toast, or "ok".
StartSpinPrecondition(c) ==
    IF wheelId[c] = NoId THEN "toast: Wheel not found."
    ELSE IF ~Truthy(user[c].email) THEN "toast: Unable to identify user."
    ELSE "ok"

\* A handler that shows the spin at once, before the store answers.
HandleSpinStartOptimistic(c) ==
    /\ UNCHANGED <<user, wheelId, subs, mounted, wheel, loading, error, winner,
                   showConfetti, canEdit, spinTriggeredRef, animating, animStarts>>
    /\ IF StartSpinPrecondition(c) # "ok"
       THEN /\ lastCall' = Call("startSpin", c, StartSpinPrecondition(c))
            /\ UNCHANGED <<doc, localSpinning>>
       ELSE /\ localSpinning' = [localSpinning EXCEPT ![c] = TRUE]
            /\ \/ /\ doc.exists
                  /\ doc' = StartSpinUpdate(doc, user[c].uid)
                  /\ lastCall' = Call("startSpin", c, "written")
               \/ /\ UNCHANGED doc
                  /\ lastCall' = Call("startSpin", c, "toast: Failed to start spin.")

HandleSpinStart(c) ==
    /\ UNCHANGED <<user, wheelId, subs, mounted, local, animating, animStarts>>
    /\ IF StartSpinPrecondition(c) # "ok"
       THEN /\ lastCall' = Call("startSpin", c, StartSpinPrecondition(c))
            /\ UNCHANGED doc
       ELSE \/ /\ doc.exists
               /\ doc' = StartSpinUpdate(doc, user[c].uid)
               /\ lastCall' = Call("startSpin", c, "written")
            \/ \* updateDoc rejects: no document, rules, network
               /\ UNCHANGED doc
               /\ lastCall' = Call("startSpin", c, "toast: Failed to start spin.")

\* ------------------------------------------------------------ handleSpinComplete
\* wheel?.initiatedBy
CachedInitiatedBy(c) ==
    IF wheel[c] = NoWheel THEN Undefined ELSE wheel[c].initiatedBy

\* A guard that lets every client that displays the wheel finalize.
CompleteGuardAnyViewer(c) == wheel[c] # NoWheel

\* initiatedBy === auth.currentUser?.uid
CompleteGuard(c) == CachedInitiatedBy(c) = user[c].uid

\* A finalize write that forgets isSpinning: false.
CompleteSpinKeepsSpinning(d, initiatedBy, result) ==
    [d EXCEPT !.initiatedBy = IF initiatedBy = Undefined THEN @ ELSE initiatedBy,
              !.currentSpin = [winner |-> result]]

\* updateDoc(wheelRef, {isSpinning: false, initiatedBy, currentSpin: {winner: result}});
\* an undefined initiatedBy, where the store is set to ignore undefined
\* properties, leaves the field alone.
CompleteSpinUpdate(d, initiatedBy, result) ==
    [d EXCEPT !.isSpinning = FALSE,
              !.initiatedBy = IF initiatedBy = Undefined THEN @ ELSE initiatedBy,
              !.currentSpin = [winner |-> result]]

HandleSpinComplete(c, result) ==
    /\ UNCHANGED <<user, wheelId, subs, mounted, local, animStarts>>
    /\ animating' = [animating EXCEPT ![c] = FALSE]
    /\ IF wheelId[c] = NoId
       THEN /\ lastCall' = Call("completeSpin", c, "nowheel")
            /\ UNCHANGED doc
       ELSE IF ~CompleteGuard(c)
       THEN /\ lastCall' = Call("completeSpin", c, "skipped")
            /\ UNCHANGED doc
       ELSE \/ /\ doc.exists
               /\ doc' = CompleteSpinUpdate(doc, CachedInitiatedBy(c), result)
               /\ lastCall' = Call("completeSpin", c, "written")
            \/ \* updateDoc rejects: no document, rules, network, or an
               \* undefined field value the store refuses
               /\ UNCHANGED doc
               /\ lastCall' = Call("completeSpin", c, "rejected")

\* the Wheel visualization reports the item its animation settled on
OnSpin(c) ==
    /\ animating[c]
    /\ \E result \in Items : HandleSpinComplete(c, result)

\* ------------------------------------------------------------ confetti
\* the 8 s timer, or the effect's cleanup: setShowConfetti(false)
HideConfetti(c) ==
    /\ showConfetti[c]
    /\ showConfetti' = [showConfetti EXCEPT ![c] = FALSE]
    /\ lastCall' = Call("hideConfetti", c, "none")
    /\ UNCHANGED <<doc, user, wheelId, subs, mounted, wheel, loading, error, winner,
                   canEdit, localSpinning, spinTriggeredRef, animating, animStarts>>

\* ------------------------------------------------------------ principal
\* The identity provider yields another principal: the effect's cleanup
\* unsubscribes the old listener and the effect subscribes a new one.
\* An effect without the cleanup keeps the old listener.
ResubscribeKeepsOld(old, id, u) == old \cup Subscribe(id, u)

Resubscribe(old, id, u) == Subscribe(id, u)

ChangeUser(c, u) ==
    /\ u # user[c]
    /\ user' = [user EXCEPT ![c] = u]
    /\ subs' = [subs EXCEPT ![c] = Resubscribe(@, wheelId[c], u)]
    /\ lastCall' = Call("changeUser", c, "none")
    /\ UNCHANGED <<doc, wheelId, mounted, local, animating, animStarts>>

Next ==
    \/ \E c \in Clients : OnSnapshot(c)
    \/ \E c \in Clients : HandleSpinStart(c)
    \/ \E c \in Clients : OnSpin(c)
    \/ \E c \in Clients : HideConfetti(c)

Spec == Init /\ [][Next]_vars

SessionNext ==
    \/ \E c \in SessionClients : OnSnapshot(c)
    \/ \E c \in SessionClients : HandleSpinStart(c)
    \/ \E c \in SessionClients, result \in Items : HandleSpinComplete(c, result)
    \/ \E c \in SessionClients : HideConfetti(c)
    \/ \E c \in SessionClients, u \in Principals : ChangeUser(c, u)

SessionSpec == SessionInit /\ [][SessionNext]_vars

\* ------------------------------------------------------------ the page's life cycle
\* The route's wheel id changes: cleanup, then the effect runs again.
ChangeWheelId(c, id) ==
    /\ id # wheelId[c]
    /\ wheelId' = [wheelId EXCEPT ![c] = id]
    /\ subs' = [subs EXCEPT ![c] = Resubscribe(@, id, user[c])]
    /\ lastCall' = Call("changeWheelId", c, "none")
    /\ UNCHANGED <<doc, user, mounted, local, animating, animStarts>>

\* return () => unsubscribe()
Unsubscribe(old) == {}

\* The client navigates away: the page unmounts and its effects clean up.
Unmount(c) ==
    /\ mounted[c]
    /\ mounted' = [mounted EXCEPT ![c] = FALSE]
    /\ subs' = [subs EXCEPT ![c] = Unsubscribe(@)]
    /\ lastCall' = Call("unmount", c, "none")
    /\ UNCHANGED <<doc, user, wheelId, local, animating, animStarts>>

\* Handlers, timers and effects run on a mounted page only; a listener runs
\* for as long as it is subscribed.
LifecycleNext ==
    \/ \E c \in SessionClients : OnSnapshot(c)
    \/ \E c \in SessionClients : mounted[c] /\ HandleSpinStart(c)
    \/ \E c \in SessionClients, result \in Items :
          mounted[c] /\ HandleSpinComplete(c, result)
    \/ \E c \in SessionClients : mounted[c] /\ HideConfetti(c)
    \/ \E c \in SessionClients, u \in Principals : mounted[c] /\ ChangeUser(c, u)
    \/ \E c \in SessionClients, id \in {WheelId, NoId} :
          mounted[c] /\ ChangeWheelId(c, id)
    \/ \E c \in SessionClients : Unmount(c)

LifecycleSpec == SessionInit /\ [][LifecycleNext]_vars

\* ------------------------------------------------------------ one spin cycle, fairly scheduled
\* Everybody may view the wheel; the clients stay subscribed.
LiveInit ==
    /\ doc = NewDoc(TRUE, TRUE, <<>>)
    /\ user \in {f \in [Clients -> Principals \ {U3}] : Ordered(f)}
    /\ wheelId = [c \in Clients |-> WheelId]
    /\ subs = [c \in Clients |-> Subscribe(wheelId[c], user[c])]
    /\ InitLocal

\* The gesture that starts the wheel's first spin, or the one gesture of
\* another principal (u2) while u1's spin is in flight; the write succeeds.
LiveSpinStart(c) ==
    /\ \/ NewDoc(TRUE, TRUE, <<>>) = doc
       \/ (doc.isSpinning /\ doc.initiatedBy = U1.uid /\ user[c] = U2)
    /\ HandleSpinStart(c)
    /\ lastCall'.outcome = "written"

\* The animation of client c settles; a write it issues succeeds.
LiveOnSpin(c) ==
    /\ OnSpin(c)
    /\ lastCall'.outcome # "rejected"

LiveNext ==
    \/ \E c \in Clients : OnSnapshot(c)
    \/ \E c \in Clients : LiveSpinStart(c)
    \/ \E c \in Clients : LiveOnSpin(c)
    \/ \E c \in Clients : HideConfetti(c)

\* Every snapshot is eventually delivered and every animation settles.
LiveFairness ==
    \A c \in Clients : WF_vars(OnSnapshot(c)) /\ WF_vars(LiveOnSpin(c))

LiveSpec == LiveInit /\ [][LiveNext]_vars /\ LiveFairness
\* ============================================================ claims
\* updateDoc was called by the handler that ran last
IssuedWrite == lastCall.outcome \in {"written", "rejected", "toast: Failed to start spin."}

Accepted(call) == call.op = "onSnapshot" /\ call.outcome \in {"accepted", "triggered"}

\* C1: single writer.  When a client's visualization calls completeSpin
\* while its cached wheel shows isSpinning=true, the client issues the
\* remote update exactly when its own principal id equals the cached
\* initiatedBy; so of clients with pairwise distinct principals that cache
\* the same initiatedBy, only the initiator's client writes.
C1_SingleWriter ==
    \A c \in Clients :
        (/\ lastCall.op = "completeSpin"
         /\ lastCall.client = c
         /\ wheel[c] # NoWheel
         /\ wheel[c].isSpinning)
        => /\ IssuedWrite <=> (user[c].uid = wheel[c].initiatedBy)
           /\ \A d \in Clients \ {c} :
                 (/\ user[d] # user[c]
                  /\ wheel[d] # NoWheel
                  /\ wheel[d].isSpinning
                  /\ wheel[d].initiatedBy = wheel[c].initiatedBy
                  /\ IssuedWrite)
                 => ~CompleteGuard(d)

\* The initiator's client has written the winner while another principal's
\* client caches the same spinning wheel.
C1_Witness ==
    \E c, d \in Clients :
        /\ c # d
        /\ user[c] # user[d]
        /\ lastCall = Call("completeSpin", c, "written")
        /\ wheel[c] # NoWheel /\ wheel[d] # NoWheel
        /\ wheel[c].isSpinning /\ wheel[d].isSpinning
        /\ wheel[c].initiatedBy = wheel[d].initiatedBy

\* C2: the shared document is always in exactly one of three phases: no
\* spin was ever started (isSpinning=false, no currentSpin); spinning
\* (isSpinning=true, currentSpin.winner=null); revealed (isSpinning=false,
\* currentSpin.winner an item).
NeverSpun == ~doc.isSpinning /\ doc.currentSpin = NoSpin
Spinning == doc.isSpinning /\ doc.currentSpin # NoSpin /\ SpinWinner(doc) = Null
Revealed == ~doc.isSpinning /\ doc.currentSpin # NoSpin /\ SpinWinner(doc) \in Items

C2_DocPhase ==
    Cardinality({i \in 1..3 : <<NeverSpun, Spinning, Revealed>>[i]}) = 1

\* The document was revealed, started again and revealed again.
C2_Witness ==
    /\ Revealed
    /\ lastCall.op = "completeSpin" /\ lastCall.outcome = "written"
    /\ \E c \in Clients :
          wheel[c] # NoWheel /\ ~wheel[c].isSpinning
          /\ wheel[c].currentSpin # NoSpin
          /\ wheel[c].currentSpin # doc.currentSpin

C4_TriggerOnce ==
    \A c \in Clients :
        /\ animStarts[c] <= 1
        /\ (animStarts[c] = 1) <=> (spinTriggeredRef[c] /\ localSpinning[c])

\* The spinning document was delivered again and started nothing.
C4_Witness ==
    \E c \in Clients :
        /\ lastCall = Call("onSnapshot", c, "accepted")
        /\ doc.isSpinning
        /\ animStarts[c] = 1
        /\ localSpinning[c]

\* The access rule as the specification states it.
ListedAs(P, D, roles) ==
    \E i \in 1..Len(D.participants) :
        D.participants[i].email = P.email /\ D.participants[i].role \in roles

ClaimAccess(P, D) ==
    \/ D.isPublic
    \/ (P # NoUser /\ P.uid = D.owner)
    \/ ListedAs(P, D, Roles)

\* C5: for every principal (null included) and every existing document,
\* onSnapshot lets the snapshot through exactly when the document is
\* public, or the principal is its owner, or the principal's email is among
\* the participants; a non-owner listed as viewer on a private document is
\* let through.
C5_HasAccess ==
    \A c \in Clients :
        (lastCall.op = "onSnapshot" /\ lastCall.client = c /\ doc.exists)
        => /\ Accepted(lastCall) <=> ClaimAccess(user[c], doc)
           /\ lastCall.outcome \in {"accepted", "triggered", "forbidden"}
           /\ (/\ ~doc.isPublic
               /\ user[c].uid # doc.owner
               /\ ListedAs(user[c], doc, {"viewer"}))
              => Accepted(lastCall)

\* The scenario of the specification: b@x.com, a viewer of u1's private wheel.
C5_Witness ==
    \E c \in Clients :
        /\ Accepted(lastCall) /\ lastCall.client = c
        /\ ~doc.isPublic
        /\ doc.owner = "u1"
        /\ user[c] = U2
        /\ doc.participants = <<[email |-> "b@x.com", role |-> "viewer"]>>
        /\ wheel[c] # NoWheel

ClaimCanEdit(P, D) == P.uid = D.owner \/ ListedAs(P, D, {"editor"})

\* C6 as stated: canEdit is (owner or listed as editor), and it is false for
\* a null principal and for every participant whose role is viewer.
C6_Original ==
    \A c \in Clients :
        (Accepted(lastCall) /\ lastCall.client = c)
        => /\ canEdit[c] <=> ClaimCanEdit(user[c], doc)
           /\ user[c] = NoUser => ~canEdit[c]
           /\ ListedAs(user[c], doc, {"viewer"}) => ~canEdit[c]

\* C6, amended: canEdit is (owner or listed as editor); it is false for a
\* null principal and for a participant whose role is viewer and who is not
\* the owner of the document.
C6_CanEdit ==
    \A c \in Clients :
        (Accepted(lastCall) /\ lastCall.client = c)
        => /\ canEdit[c] <=> ClaimCanEdit(user[c], doc)
           /\ user[c] = NoUser => ~canEdit[c]
           /\ (ListedAs(user[c], doc, {"viewer"}) /\ user[c].uid # doc.owner)
              => ~canEdit[c]

\* A viewer who is not the owner was let through and may not edit.
C6_Witness ==
    \E c \in Clients :
        /\ Accepted(lastCall) /\ lastCall.client = c
        /\ ~doc.isPublic
        /\ user[c].uid # doc.owner
        /\ ListedAs(user[c], doc, {"viewer"})
        /\ ~canEdit[c]
        /\ wheel[c] = WheelOf(doc)
\* C7: round trip on the initiator's client, which displays the wheel.
\* The echoed snapshot of its startSpin (isSpinning=true, winner=null)
\* leaves localSpinning=true and winner=""; the echoed snapshot of its
\* completeSpin(r) (isSpinning=false, winner=r) leaves localSpinning=false,
\* winner=r and showConfetti=true.
C7_RoundTrip ==
    \A c \in Clients :
        (/\ Accepted(lastCall) /\ lastCall.client = c
         /\ doc.initiatedBy = user[c].uid)
        => /\ Spinning => (localSpinning[c] /\ winner[c] = "" /\ ~showConfetti[c])
           /\ Revealed => /\ ~localSpinning[c]
                          /\ winner[c] = doc.currentSpin.winner
                          /\ showConfetti[c]

\* The only client of its principal started a spin, saw it, finalized it
\* and was delivered the revealed document.
C7_Witness ==
    \E c \in Clients :
        /\ lastCall = Call("onSnapshot", c, "accepted")
        /\ \A d \in Clients \ {c} : user[d].uid # user[c].uid
        /\ doc.initiatedBy = user[c].uid
        /\ Revealed
        /\ ~localSpinning[c] /\ ~animating[c]
        /\ winner[c] = doc.currentSpin.winner
        /\ showConfetti[c]

\* C8: an error exit of onSnapshot (no document, or no access) sets its
\* error, clears loading and leaves wheel, canEdit, the trigger flag,
\* localSpinning, winner and showConfetti as they were; and onSnapshot
\* takes the exit whenever the document is missing or access is denied.
C8_ErrorExit ==
    [][\A c \in Clients :
          (lastCall'.op = "onSnapshot" /\ lastCall'.client = c)
          => /\ (lastCall'.outcome = "notfound") <=> ~doc.exists
             /\ (lastCall'.outcome = "forbidden")
                   <=> (doc.exists /\ ~ClaimAccess(user[c], doc))
             /\ lastCall'.outcome \in {"notfound", "forbidden"}
                => /\ error'[c] = IF lastCall'.outcome = "notfound"
                                  THEN "Wheel not found."
                                  ELSE "You do not have permission to view this wheel."
                   /\ ~loading'[c]
                   /\ wheel'[c] = wheel[c]
                   /\ canEdit'[c] = canEdit[c]
                   /\ spinTriggeredRef'[c] = spinTriggeredRef[c]
                   /\ localSpinning'[c] = localSpinning[c]
                   /\ winner'[c] = winner[c]
                   /\ showConfetti'[c] = showConfetti[c]]_vars

\* A client that held a wheel, the edit right, a winner and confetti was
\* refused a later snapshot and still holds them.
C8_Witness ==
    \E c \in Clients :
        /\ lastCall = Call("onSnapshot", c, "forbidden")
        /\ wheel[c] # NoWheel
        /\ canEdit[c]
        /\ winner[c] \in Items
        /\ showConfetti[c]
        /\ ~loading[c]

\* C9: startSpin without a wheel id, or with a principal that has no email
\* (no principal, or email missing), ends in its precondition toast, calls
\* no updateDoc and leaves the document as it was.
C9_StartPrecondition ==
    [][\A c \in Clients :
          (/\ lastCall'.op = "startSpin" /\ lastCall'.client = c
           /\ (wheelId[c] = NoId \/ user[c] = NoUser \/ ~Truthy(user[c].email)))
          => /\ lastCall'.outcome \in {"toast: Wheel not found.",
                                       "toast: Unable to identify user."}
             /\ doc' = doc]_vars

\* The scenario of the specification: a principal with an id and no email,
\* on a wheel it displays, is refused.
C9_Witness ==
    \E c \in Clients :
        /\ lastCall = Call("startSpin", c, "toast: Unable to identify user.")
        /\ user[c] = U3
        /\ wheel[c] # NoWheel
        /\ NeverSpun
\* C10: once the document is revealed with winner w, its winner stays w
\* until the next startSpin write is applied: no step other than a startSpin
\* write changes the winner of a revealed document.
C10_RevealedWinnerStable ==
    [][Revealed =>
          \/ doc'.currentSpin = doc.currentSpin
          \/ lastCall'.op = "startSpin" /\ lastCall'.outcome = "written"]_vars
\* C11: every spin cycle is eventually finalized: whenever the document has
\* isSpinning=true it eventually has isSpinning=false with a winner set,
\* given that snapshots are delivered, writes succeed and every animation
\* settles and calls completeSpin once.
C11_EventuallyFinalized == doc.isSpinning ~> Revealed
\* C12: a completeSpin write that passes the guard leaves the document's
\* initiatedBy as it was immediately before the write.
C12_FinalizeKeepsInitiator ==
    [][(lastCall'.op = "completeSpin" /\ lastCall'.outcome = "written")
          => doc'.initiatedBy = doc.initiatedBy]_vars

C14_StartNoLocalChange ==
    [][lastCall'.op = "startSpin"
          => /\ local' = local
             /\ lastCall'.outcome # "written" => doc' = doc]_vars

\* A write by a client that displays the idle wheel was refused.
C14_Witness ==
    \E c \in Clients :
        /\ lastCall = Call("startSpin", c, "toast: Failed to start spin.")
        /\ wheel[c] # NoWheel
        /\ ~wheel[c].isSpinning
        /\ ~localSpinning[c]
        /\ ~loading[c]

\* What the page renders (lines 192-212).
ErrorDisplayed(c) == ~loading[c] /\ error[c] # Null
WheelDisplayed(c) == ~loading[c] /\ error[c] = Null /\ wheel[c] # NoWheel

\* C15: errors are terminal: once a snapshot has set an error on a client,
\* no later step clears it and the client keeps showing the error display.
C15_ErrorTerminal ==
    [][\A c \in Clients :
          error[c] # Null => (error'[c] = error[c] /\ ErrorDisplayed(c)')]_vars

\* A later snapshot was accepted for a client that shows an error.
C15_Witness ==
    \E c \in Clients :
        /\ ErrorDisplayed(c)
        /\ lastCall.op = "onSnapshot" /\ lastCall.client = c
        /\ Accepted(lastCall)
        /\ wheel[c] # NoWheel

\* C16: access is re-derived for the current principal: after a snapshot of
\* the existing document is delivered, the client displays the wheel exactly
\* if the access rule admits its principal, with canEdit as the rule gives it,
\* and the error display otherwise.
C16_DisplayMatchesPrincipal ==
    \A c \in Clients :
        (lastCall.op = "onSnapshot" /\ lastCall.client = c /\ doc.exists)
        => IF ClaimAccess(user[c], doc)
           THEN WheelDisplayed(c) /\ canEdit[c] = ClaimCanEdit(user[c], doc)
           ELSE ErrorDisplayed(c)
LocalOf(c) ==
    <<wheel[c], loading[c], error[c], winner[c], showConfetti[c], canEdit[c],
      localSpinning[c], spinTriggeredRef[c]>>

\* The only listener a client may hold is the one of its current principal
\* on its current wheel id, and none once it navigated away.
OneLiveSubscription ==
    \A c \in Clients :
        /\ Cardinality(subs[c]) <= 1
        /\ subs[c] \subseteq {user[c]}
        /\ (~mounted[c] \/ wheelId[c] = NoId) => subs[c] = {}

\* C17: the subscription is released on every exit: a client holds at most
\* one live subscription, that of its current principal and wheel id; after
\* it navigated away no snapshot callback runs for it and its local state
\* never changes again.
C17_SubscriptionReleased ==
    /\ []OneLiveSubscription
    /\ [][\A c \in Clients :
             /\ (lastCall'.op = "onSnapshot" /\ lastCall'.client = c)
                => (mounted[c] /\ wheelId[c] # NoId /\ subs[c] = {user[c]})
             /\ ~mounted[c] => LocalOf(c)' = LocalOf(c)]_vars

\* The client left after its principal had changed, with a write of its own
\* not yet delivered to it.
C17_Witness ==
    \E c \in Clients :
        /\ ~mounted[c]
        /\ subs[c] = {}
        /\ error[c] # Null
        /\ wheel[c] # NoWheel
        /\ doc.isSpinning
        /\ ~wheel[c].isSpinning
\* C18: the winner reveal is idempotent: when a client that already stored a
\* snapshot is delivered the same snapshot again and accepts it, its winner
\* and showConfetti are left as they were; and right after every accepted
\* snapshot winner is the snapshot's non-empty winner or "", and
\* showConfetti says whether winner is non-empty.
C18_RevealIdempotent ==
    [][\A c \in Clients :
          (Accepted(lastCall') /\ lastCall'.client = c)
          => /\ winner'[c] = (IF doc.currentSpin # NoSpin
                                 /\ doc.currentSpin.winner \in Items
                              THEN doc.currentSpin.winner ELSE "")
             /\ showConfetti'[c] = (winner'[c] # "")
             /\ (wheel[c] = WheelOf(doc) /\ error[c] = Null)
                => (winner'[c] = winner[c]
                    /\ showConfetti'[c] = showConfetti[c])]_vars

\* C19: a client whose principal is null never issues a finalize write.
C19_NullNeverFinalizes ==
    \A c \in Clients :
        (lastCall.op = "completeSpin" /\ lastCall.client = c /\ user[c] = NoUser)
        => ~IssuedWrite

\* C20: the one-shot trigger flag equals localSpinning in every state, and
\* right after an accepted snapshot both equal the snapshot's isSpinning.
C20_TriggerMirrorsSpinning ==
    \A c \in Clients :
        /\ spinTriggeredRef[c] = localSpinning[c]
        /\ (Accepted(lastCall) /\ lastCall.client = c)
           => localSpinning[c] = doc.isSpinning

\* A snapshot with isSpinning=false cleared both after a finished cycle, and
\* the other client still animates.
C20_Witness ==
    \E c \in Clients :
        /\ lastCall = Call("onSnapshot", c, "accepted")
        /\ Revealed
        /\ ~spinTriggeredRef[c] /\ ~localSpinning[c]
        /\ winner[c] \in Items
        /\ \E d \in Clients \ {c} : spinTriggeredRef[d] /\ localSpinning[d]
====
